---------------------------- MODULE Spec2Model ----------------------------
(***************************************************************************)
(* A model of the todo server of lab-4: TodoController (getTodo, getTodos, *)
(* addNewTodo, deleteTodo) over the "todos" collection, and of the         *)
(* client's TodoService.filterTodos.                                       *)
(*                                                                         *)
(* Text is modelled as a sequence of one-character strings, so that        *)
(* substring search, case folding and lexical comparison are computed and  *)
(* not assumed.  A Java null is the one-element sequence NULL, whose       *)
(* element is no character.                                                *)
(***************************************************************************)
EXTENDS Integers, Sequences, FiniteSets, TLC

VARIABLES
  todoCollection,  \* the documents of the "todos" collection, in insertion order
  nextId,          \* number of the next identifier the store generates
  req,             \* the request being served, [op |-> "none"] between requests
  resp,            \* what its handler did with the Context: status, json, exception
  storeUp,         \* whether the calls of the store succeed (FALSE: they throw)
  storeCalls,      \* number of store calls the handler of the request made
  deleting,        \* the delete requests that run side by side, by their number
  call,            \* the call of filterTodos with its arguments as passed
  todos,           \* the array passed to filterTodos, as the call leaves it
  filtersObject,   \* the filters object passed to filterTodos, as the call leaves it
  result,          \* what the call returned or threw
  todoList,        \* the fields of the TodoListComponent
  httpGets,        \* the GET requests getTodos issued for it, in the order of issue
  addTodoForm,     \* the value of the form of the AddTodoComponent
  location,        \* the path the router is at
  httpPosts        \* the calls of addTodo, in the order of call

serverVars == <<todoCollection, nextId, req, resp, storeUp, storeCalls, deleting>>
clientVars ==
  <<call, todos, filtersObject, result, todoList, httpGets, addTodoForm, location, httpPosts>>
vars == <<todoCollection, nextId, req, resp, storeUp, storeCalls, deleting, call, todos, filtersObject, result,
          todoList, httpGets, addTodoForm, location, httpPosts>>

-----------------------------------------------------------------------------
(* Bounds of the model. *)

\* number of identifiers the store generates in a run (fixture included)
MaxIds == 3
\* number of documents of the test fixture a run may start with
MaxSeed == 2
\* length of the longest array passed to filterTodos
MaxTodos == 3
\* number of GET requests a TodoListComponent issues in a run
MaxGets == 2
\* number of times the form of an AddTodoComponent is submitted in a run
MaxPosts == 2
\* number of delete requests that run side by side
MaxDeletes == 3

-----------------------------------------------------------------------------
(* Text. *)

NULL == <<"null">>

\* The characters of the model in ASCII order: position = relative code.
Alphabet ==
  << " ", ",",
     "0", "1", "2", "3", "4", "5", "6", "7", "8", "9",
     "A", "B", "C", "D", "E", "F", "G", "H", "I", "J", "K", "L", "M",
     "N", "O", "P", "Q", "R", "S", "T", "U", "V", "W", "X", "Y", "Z",
     "a", "b", "c", "d", "e", "f", "g", "h", "i", "j", "k", "l", "m",
     "n", "o", "p", "q", "r", "s", "t", "u", "v", "w", "x", "y", "z" >>

Chars == {Alphabet[i] : i \in 1..Len(Alphabet)}

CharCode == [c \in Chars |-> CHOOSE i \in 1..Len(Alphabet) : Alphabet[i] = c]

IsUpper(c) == CharCode[c] \in CharCode["A"]..CharCode["Z"]

\* case folding of one character, as a CASE_INSENSITIVE match folds it
LowerChar == [c \in Chars |->
  IF IsUpper(c) THEN Alphabet[CharCode[c] + (CharCode["a"] - CharCode["A"])] ELSE c]

ToLower(s) == [i \in 1..Len(s) |-> LowerChar[s[i]]]

\* sub occurs in s as a contiguous run of characters (String.indexOf /= -1,
\* an unanchored search for a quoted pattern)
Contains(s, sub) ==
  \E k \in 0..(Len(s) - Len(sub)) :
    \A i \in 1..Len(sub) : s[k + i] = sub[i]

\* a < b in the lexical (code point) order of two texts
RECURSIVE LexLess(_, _)
LexLess(a, b) ==
  IF b = <<>> THEN FALSE
  ELSE IF a = <<>> THEN TRUE
  ELSE IF a[1] = b[1] THEN LexLess(Tail(a), Tail(b))
  ELSE CharCode[a[1]] < CharCode[b[1]]

-----------------------------------------------------------------------------
(* Identifiers. *)

HexDigits == {"0", "1", "2", "3", "4", "5", "6", "7", "8", "9",
              "a", "b", "c", "d", "e", "f", "A", "B", "C", "D", "E", "F"}

\* ObjectId.isValid: a 24-character hexadecimal string; new ObjectId(s)
\* throws IllegalArgumentException otherwise (also for null)
IsLegalObjectId(s) ==
  /\ s # NULL
  /\ Len(s) = 24
  /\ \A i \in 1..Len(s) : s[i] \in HexDigits

\* new ObjectId(s) for a legal s: the 12 bytes, written here as the lower-case
\* hexadecimal string toHexString() returns
ObjectId(s) == ToLower(s)

\* the k-th identifier the store generates (new ObjectId()): distinct for
\* distinct k
GeneratedId(k) ==
  [i \in 1..24 |-> IF i = 1 THEN "a" ELSE IF i = 24 THEN Alphabet[CharCode["0"] + k] ELSE "0"]


-----------------------------------------------------------------------------
(* Documents. *)

OWNER_KEY == <<"o", "w", "n", "e", "r">>
STATUS_KEY == <<"s", "t", "a", "t", "u", "s">>
BODY_KEY == <<"b", "o", "d", "y">>
CATEGORY_KEY == <<"c", "a", "t", "e", "g", "o", "r", "y">>
ID_KEY == <<"_", "i", "d">>

Groceries == <<"g", "r", "o", "c", "e", "r", "i", "e", "s">>
Homework == <<"h", "o", "m", "e", "w", "o", "r", "k">>
SoftwareDesign == <<"s", "o", "f", "t", "w", "a", "r", "e", " ", "d", "e", "s", "i", "g", "n">>
VideoGames == <<"v", "i", "d", "e", "o", " ", "g", "a", "m", "e", "s">>

\* the alternatives of CAT_REGEX, which String.matches anchors at both ends
CAT_REGEX == {Groceries, Homework, SoftwareDesign, VideoGames}

Todo(id, owner, status, body, category) ==
  [_id |-> id, owner |-> owner, status |-> status, body |-> body, category |-> category]

\* the documents setupEach stores, numbered in insertion order
Fixture ==
  << Todo(GeneratedId(1), <<"J", "e", "r", "r", "y">>, TRUE,
          <<"P", "r", "o", "m", "i", "n", "e", "n", "t", " ", "s", "k", "i", "e", "r">>,
          Groceries),
     Todo(GeneratedId(2), <<"S", "w", "a", "n">>, FALSE,
          <<"c", "r", "a", "z", "y">>, SoftwareDesign),
     Todo(GeneratedId(3), <<"R", "o", "d">>, TRUE,
          <<"H", "u", "n", "t", "e", "r">>, VideoGames),
     Todo(GeneratedId(4), <<"F", "r", "y">>, TRUE,
          <<"B", "u", "l", "l", "f", "r", "o", "g", " ", "r", "a", "n", "g", "e", "r">>,
          Homework) >>

Min(a, b) == IF a < b THEN a ELSE b

Range(seq) == {seq[i] : i \in 1..Len(seq)}

Ids(coll) == {coll[i]._id : i \in 1..Len(coll)}

-----------------------------------------------------------------------------
(* What a handler leaves in its Context. *)

\* members of io.javalin.http.HttpStatus; UNSET when ctx.status was not called
OK == "OK"
CREATED == "CREATED"
NOT_FOUND == "NOT_FOUND"
UNSET == "unset"

NoJson == <<>>
NoException == [type |-> "none", message |-> <<>>]

\* the Context after a handler: the last ctx.status (UNSET when never called),
\* the value given to ctx.json (if any), and the exception the handler threw
Response(status, hasJson, json, thrown) ==
  [status |-> status, hasJson |-> hasJson, json |-> json, thrown |-> thrown]

\* exceptions a handler throws; the message is the sequence of its parts
BadRequestResponse(message) == [type |-> "BadRequestResponse", message |-> message]
NotFoundResponse(message) == [type |-> "NotFoundResponse", message |-> message]
ValidationException(messages) == [type |-> "ValidationException", message |-> messages]
IllegalArgumentException == [type |-> "IllegalArgumentException", message |-> <<>>]
NullPointerException == [type |-> "NullPointerException", message |-> <<>>]
\* what a call of the store throws when the store cannot be reached
MongoException == [type |-> "MongoException", message |-> <<>>]

-----------------------------------------------------------------------------
(* getTodos: filter and order. *)

SORTBY_KEY == <<"s", "o", "r", "t", "b", "y">>
SORTORDER_KEY == <<"s", "o", "r", "t", "o", "r", "d", "e", "r">>
NAME == <<"n", "a", "m", "e">>
ASC == <<"a", "s", "c">>
DESC == <<"d", "e", "s", "c">>

\* ctx.queryParamMap().containsKey(key); ctx.queryParam(key) is null exactly
\* when the key is absent
ContainsKey(params, key) == params[key] # NULL

\* RegexMatches without CASE_INSENSITIVE
RegexMatchesCaseSensitive(todo, key, value) ==
  IF key = STATUS_KEY THEN FALSE
  ELSE LET field == IF key = OWNER_KEY THEN todo.owner
                    ELSE IF key = BODY_KEY THEN todo.body
                    ELSE todo.category
       IN  Contains(field, value)

\* regex(field, Pattern.compile(Pattern.quote(value), CASE_INSENSITIVE)) on one
\* document: an unanchored search for the literal value, letter case ignored.
\* The store matches a regular expression against text only: the boolean
\* status of a document is matched by no pattern.
RegexMatches(todo, key, value) ==
  IF key = STATUS_KEY THEN FALSE
  ELSE LET field == IF key = OWNER_KEY THEN todo.owner
                    ELSE IF key = BODY_KEY THEN todo.body
                    ELSE todo.category
       IN  Contains(ToLower(field), ToLower(value))

\* the keys constructFilter looks for
FilterKeys == {OWNER_KEY, STATUS_KEY, BODY_KEY, CATEGORY_KEY}

\* ConstructFilter with and() of the empty list of filters, which matches nothing
ConstructFilterEmptyMatchesNothing(params, todo) ==
  LET filters == {key \in FilterKeys : ContainsKey(params, key)}
  IN  /\ filters # {}
      /\ \A key \in filters : RegexMatches(todo, key, params[key])

\* constructFilter: the list of per-key filters, and()ed; the empty document,
\* which matches everything, when the list is empty
ConstructFilter(params, todo) ==
  LET filters == {key \in FilterKeys : ContainsKey(params, key)}
  IN  IF filters = {} THEN TRUE
      ELSE \A key \in filters : RegexMatches(todo, key, params[key])

\* constructSortingOrder: the field and the direction of the sort
SortBy(params) == IF params[SORTBY_KEY] # NULL THEN params[SORTBY_KEY] ELSE NAME
SortOrder(params) == IF params[SORTORDER_KEY] # NULL THEN params[SORTORDER_KEY] ELSE ASC

\* Descending with equalsIgnoreCase in place of equals
DescendingIgnoringCase(params) == ToLower(SortOrder(params)) = DESC

Descending(params) == SortOrder(params) = DESC

\* a sorts strictly before b on the field: text fields in lexical order,
\* false before true, and documents without the field all alike
FieldLess(a, b, field) ==
  IF field \in {OWNER_KEY, BODY_KEY, CATEGORY_KEY, ID_KEY}
  THEN LET fa == IF field = OWNER_KEY THEN a.owner ELSE IF field = BODY_KEY THEN a.body
                 ELSE IF field = CATEGORY_KEY THEN a.category ELSE a._id
           fb == IF field = OWNER_KEY THEN b.owner ELSE IF field = BODY_KEY THEN b.body
                 ELSE IF field = CATEGORY_KEY THEN b.category ELSE b._id
       IN  LexLess(fa, fb)
  ELSE IF field = STATUS_KEY THEN (~a.status /\ b.status)
  ELSE FALSE

\* t goes before u in the order asked for
Before(t, u, field, descending) ==
  IF descending THEN FieldLess(u, t, field) ELSE FieldLess(t, u, field)

\* insertion of t into a sorted sequence, behind everything it does not precede
RECURSIVE InsertInOrder(_, _, _, _)
InsertInOrder(t, sorted, field, descending) ==
  IF sorted = <<>> THEN <<t>>
  ELSE IF Before(t, Head(sorted), field, descending) THEN <<t>> \o sorted
  ELSE <<Head(sorted)>> \o InsertInOrder(t, Tail(sorted), field, descending)

\* .sort(sortingOrder): documents that tie keep the order of the collection
RECURSIVE StoreSort(_, _, _)
StoreSort(seq, field, descending) ==
  IF seq = <<>> THEN <<>>
  ELSE InsertInOrder(seq[Len(seq)],
                     StoreSort(SubSeq(seq, 1, Len(seq) - 1), field, descending),
                     field, descending)

\* todoCollection.find(combinedFilter).sort(sortingOrder).into(new ArrayList<>())
MatchingTodos(coll, params) ==
  LET Keep(todo) == ConstructFilter(params, todo)
  IN  StoreSort(SelectSeq(coll, Keep), SortBy(params), Descending(params))

-----------------------------------------------------------------------------
(* addNewTodo: the validator. *)

\* the four checks of addNewTodo, in the order they are added: "pass", "fail",
\* or "npe" where the check dereferences null
BodyCheck(tdo) == IF tdo.body # NULL /\ Len(tdo.body) > 0 THEN "pass" ELSE "fail"
OwnerCheck(tdo) == IF tdo.owner # NULL /\ Len(tdo.owner) > 0 THEN "pass" ELSE "fail"
StatusCheck(tdo) == IF tdo.status THEN "pass" ELSE "fail"
CategoryCheck(tdo) ==
  IF tdo.category = NULL THEN "npe"
  ELSE IF tdo.category \in CAT_REGEX THEN "pass" ELSE "fail"

Checks(tdo) ==
  << [result |-> BodyCheck(tdo), message |-> "Todo must have a non-empty body"],
     [result |-> OwnerCheck(tdo), message |-> "Todo must have a non-empty owner"],
     [result |-> StatusCheck(tdo), message |-> "Todo must have a non-empty status"],
     [result |-> CategoryCheck(tdo), message |-> "Todo must have a legal user role"] >>

\* .get(): the exception the validator throws, NoException when every check
\* passes.  The validator is the web framework's: it either stops at the first
\* check that does not pass (evalAll = FALSE) or evaluates every check and
\* reports all that fail (evalAll = TRUE); a check that dereferences null
\* throws out of whichever evaluation reaches it.
Validate(tdo, evalAll) ==
  LET checks == Checks(tdo)
      NotPassed == {i \in 1..Len(checks) : checks[i].result # "pass"}
      first == CHOOSE i \in NotPassed : \A j \in NotPassed : i <= j
      Failed(c) == c.result = "fail"
      failed == SelectSeq(checks, Failed)
  IN  IF NotPassed = {} THEN NoException
      ELSE IF evalAll
      THEN IF \E i \in NotPassed : checks[i].result = "npe"
           THEN NullPointerException
           ELSE ValidationException([i \in 1..Len(failed) |-> failed[i].message])
      ELSE IF checks[first].result = "npe"
           THEN NullPointerException
           ELSE ValidationException(<<checks[first].message>>)

-----------------------------------------------------------------------------
(* Requests of the model. *)

TestTodo == <<"T", "e", "s", "t", "T", "o", "d", "o">>
Fry == <<"F", "r", "y">>
Hunter == <<"H", "u", "n", "t", "e", "r">>

\* JSON bodies that deserialise to a Todo
Candidates ==
  { Todo(id, owner, status, body, category) :
      id \in {NULL, TestTodo},
      owner \in {NULL, <<>>, Fry},
      status \in BOOLEAN,
      body \in {NULL, <<>>, <<"x">>, Hunter},
      category \in {NULL, Homework, <<"H">> \o Tail(Homework),
                    <<"r", "e", "a", "l", " ", "c", "a", "t", "e", "g", "o", "r", "y">>} }

\* path parameters: the identifiers the store may generate, one of them in
\* upper case, and strings that are no ObjectId
PathIds ==
  {GeneratedId(k) : k \in 1..MaxIds}
    \cup {<<"A">> \o Tail(GeneratedId(1))}
    \cup {NULL, <<"b", "a", "d">>, <<"g">> \o Tail(GeneratedId(1)), Tail(GeneratedId(1))}

QueryParams(owner, status, body, category, sortby, sortorder) ==
  (OWNER_KEY :> owner) @@ (STATUS_KEY :> status) @@ (BODY_KEY :> body)
    @@ (CATEGORY_KEY :> category) @@ (SORTBY_KEY :> sortby) @@ (SORTORDER_KEY :> sortorder)

\* query strings; NULL for a key the query does not carry
Queries ==
  { QueryParams(owner, status, body, category, sortby, sortorder) :
      owner \in {NULL, <<>>, <<"R", "R">>},
      status \in {NULL, <<"t", "r", "u", "e">>},
      body \in {NULL, <<"E", "r">>},
      category \in {NULL, <<"R", "E">>},
      sortby \in {NULL, OWNER_KEY, BODY_KEY},
      sortorder \in {NULL, ASC, DESC, <<"D", "E", "S", "C">>} }

-----------------------------------------------------------------------------
(* The client: TodoService.filterTodos.  A JavaScript object is a function *)
(* from the names of the properties it has to their values; a property it  *)
(* does not have is undefined.                                             *)

\* the todos of the service's tests
Chris ==
  [_id |-> "chris_id", owner |-> <<"C", "h", "r", "i", "s">>, status |-> FALSE,
   body |-> <<"U", "M", "M", " ", "i", "s", " ", "c", "o", "o", "l">>,
   category |-> SoftwareDesign]
Pat ==
  [_id |-> "pat_id", owner |-> <<"P", "a", "t">>, status |-> TRUE,
   body |-> <<"I", "B", "M", " ", "i", "s", " ", "n", "o", "t", " ", "c", "o", "o", "l">>,
   category |-> Homework]
Jamie ==
  [_id |-> "jamie_id", owner |-> <<"J", "a", "m", "i", "e">>, status |-> FALSE,
   body |-> <<"F", "r", "o", "g", "s", ",", " ", "a", "r", "e", " ", "c", "o", "o", "l">>,
   category |-> Groceries]
testTodos == <<Chris, Pat, Jamie>>

\* a todo that also has the name and company of the second declaration of
\* interface Todo
WithNameAndCompany(todo, name, company) ==
  [key \in DOMAIN todo \cup {"name", "company"} |->
     IF key = "name" THEN name ELSE IF key = "company" THEN company ELSE todo[key]]

\* the records the arrays are made of
TodoRecords ==
  Range(testTodos) \cup {WithNameAndCompany(Chris, Chris.owner, <<"U", "M", "M">>)}

\* the arrays passed to filterTodos: at most MaxTodos distinct records
TodoArrays ==
  UNION { {ts \in [1..k -> TodoRecords] :
             \A i, j \in 1..k : i # j => ts[i] # ts[j]} : k \in 0..MaxTodos }

\* an object with no property, and the objects with at most the property key
Has(obj, key) == key \in DOMAIN obj
EmptyObject == [key \in {} |-> key]
Optional(key, values) == {EmptyObject} \cup {key :> v : v \in values}

\* the filters objects passed to filterTodos: what updateFilter passes
\* (owner, status, body, category, limit, order) and what filterTodos reads
\* (name, company)
FilterObjects ==
  { owner @@ status @@ body @@ category @@ limit @@ order @@ name @@ company :
      owner \in Optional("owner", {<<"i">>, <<"I">>}),
      status \in Optional("status", BOOLEAN),
      body \in Optional("body", {<<"M">>}),
      category \in Optional("category", {SoftwareDesign}),
      limit \in Optional("limit", {0, 1, MaxTodos - 1}),
      order \in Optional("order", {OWNER_KEY, BODY_KEY, CATEGORY_KEY}),
      name \in Optional("name", {<<"C", "H">>}),
      company \in Optional("company", {<<"u", "m", "m">>}) }

\* if (filters.key): the property is there and is not the empty string
Truthy(obj, key) == Has(obj, key) /\ obj[key] # <<>>

\* what a call leaves: the filters object, whether it threw, the value returned
Outcome(filtersAfter, thrown, value) ==
  [filters |-> filtersAfter, thrown |-> thrown, value |-> value]

\* one if-block of filterTodos: filters[key] is replaced by its lower case,
\* then the array is filtered on todo[key].toLowerCase().indexOf(filters[key]);
\* toLowerCase() of an undefined todo[key] throws TypeError
FilterOn(before, key) ==
  IF before.thrown # "none" \/ ~Truthy(before.filters, key) THEN before
  ELSE LET lowered == [before.filters EXCEPT ![key] = ToLower(@)]
           Keep(todo) == Contains(ToLower(todo[key]), lowered[key])
       IN  IF \E i \in 1..Len(before.value) : ~Has(before.value[i], key)
           THEN Outcome(lowered, "TypeError", <<>>)
           ELSE Outcome(lowered, "none", SelectSeq(before.value, Keep))

\* filterTodos(todos, filters): filteredTodos starts as todos and goes through
\* the name block and the company block
FilterTodosOutcome(ts, fs) ==
  FilterOn(FilterOn(Outcome(fs, "none", ts), "name"), "company")

NoCall == [op |-> "none"]
NoResult == [thrown |-> "none", returned |-> FALSE, value |-> <<>>]

-----------------------------------------------------------------------------
(* The client: TodoService.getTodos and the TodoListComponent. *)

\* the value of a field or property that was never assigned
Undefined == <<"undefined">>
\* the same for a field of type Todo[]: it is no array of todos
UndefinedTodos == <<[undefined |-> TRUE]>>

\* the text of a small number (Number.toString)
NumberToString(n) == <<Alphabet[CharCode["0"] + n]>>

\* getTodos(filters): the HttpParams of the GET, set from filters.role,
\* filters.age and filters.company when these are given
GetTodosParams(fs) ==
  LET role == IF Truthy(fs, "role") THEN "role" :> fs.role ELSE EmptyObject
      age == IF Has(fs, "age") /\ fs.age # 0 THEN "age" :> NumberToString(fs.age) ELSE EmptyObject
      company == IF Truthy(fs, "company") THEN "company" :> fs.company ELSE EmptyObject
  IN  role @@ age @@ company

\* the component as constructed: errMsg = '', the Subject not yet used
NewTodoList ==
  [serverFilteredTodos |-> UndefinedTodos, filteredTodos |-> UndefinedTodos,
   todoOwner |-> Undefined, todoStatus |-> Undefined, todoBody |-> Undefined,
   todoCategory |-> Undefined, todoLimit |-> Undefined, todoOrder |-> Undefined,
   errMsg |-> <<>>, ngUnsubscribe |-> "open"]

\* updateFilter(): filteredTodos = filterTodos(serverFilteredTodos, {...})
UpdateFilter(c) ==
  LET fs == [owner |-> c.todoOwner, status |-> c.todoStatus, body |-> c.todoBody,
             category |-> c.todoCategory, limit |-> c.todoLimit, order |-> c.todoOrder]
  IN  [c EXCEPT !.filteredTodos = FilterTodosOutcome(c.serverFilteredTodos, fs).value]

\* the GET that getTodosFromServer() of component c makes getTodos issue;
\* returned is what comes back for it, the todos or the error
GetOf(c) ==
  LET fs == [owner |-> c.todoOwner, category |-> c.todoCategory, body |-> c.todoBody,
             status |-> c.todoStatus, limit |-> c.todoLimit, order |-> c.todoOrder]
  IN  [url |-> "todoUrl", params |-> GetTodosParams(fs),
       state |-> "outstanding", returned |-> UndefinedTodos]

\* the values of the controls of the template
OwnerInputs == {<<"i">>, <<>>}
StatusOptions == {Undefined, <<"t", "r", "u", "e">>}
OrderOptions == {Undefined, BODY_KEY}
CategoryOptions == {Undefined, Homework}
\* (the number the Limit input holds is written as its digits)
LimitInputs == {<<"1">>}
BodyInputs == {<<"M">>, <<>>}

\* what the server answers, and how a request fails
ReturnedTodos == {<<Chris>>, testTodos}
HttpErrors ==
  { [error |-> "ErrorEvent", errorMessage |-> "offline", status |-> "0", message |-> "failure"],
    [error |-> "body", errorMessage |-> "none", status |-> "500", message |-> "Server error"] }

\* no component has been created
NoTodoList ==
  /\ todoList = NewTodoList
  /\ httpGets = <<>>

NoAddTodo ==
  /\ addTodoForm = <<>>
  /\ location = <<>>
  /\ httpPosts = <<>>

\* the value of addTodoForm as constructed
NewAddTodoForm == [body |-> <<>>, status |-> <<>>, owner |-> <<>>, category |-> Groceries]

\* what the user enters in the controls of the form
FormInputs ==
  [body |-> {<<"x">>, Hunter}, status |-> {<<"c", "o", "m", "p", "l", "e", "t", "e">>},
   owner |-> {Fry}, category |-> {Homework}]

\* the path of the form (routerLink="/todos/new"), as its segments
AddTodoPath == <<"/todos/", <<"n", "e", "w">>>>

\* what the server answers to the POST of addTodo
PostResponses == {[id |-> GeneratedId(k)] : k \in 1..MaxPosts}

-----------------------------------------------------------------------------
(* The handlers.  The server calls one handler per request, each with a    *)
(* Context of its own (addRoutes); the Context is gone once the response   *)
(* is sent.                                                                *)

NoRequest == [op |-> "none"]
NoResponse == Response(UNSET, FALSE, NoJson, NoException)

\* the server after construction, over a collection with some of the fixture
InitServer(up) ==
  /\ \E n \in 0..Min(MaxSeed, Len(Fixture)) :
       /\ todoCollection = SubSeq(Fixture, 1, n)
       /\ nextId = n + 1
  /\ req = NoRequest
  /\ resp = NoResponse
  /\ storeUp = up
  /\ storeCalls = 0

\* no request runs beside the one of req
NoDeletes == deleting = <<>>

\* the service has not been called
NoFilterCall ==
  /\ call = NoCall
  /\ todos = <<>>
  /\ filtersObject = EmptyObject
  /\ result = NoResult

\* the client does nothing
NoClient ==
  /\ NoFilterCall
  /\ NoTodoList
  /\ NoAddTodo

Init ==
  /\ InitServer(TRUE)
  /\ NoDeletes
  /\ NoClient

\* FindById without the filter
FindByIdUnfiltered(coll, oid) == coll

\* find(eq("_id", oid)): the documents with that identifier
FindById(coll, oid) ==
  LET Is(todo) == todo._id = oid
  IN  SelectSeq(coll, Is)

\* GetTodo without the catch of IllegalArgumentException
GetTodoUncaught(id) ==
  /\ req = NoRequest
  /\ req' = [op |-> "getTodo", id |-> id]
  /\ resp' =
       IF ~IsLegalObjectId(id)
       THEN Response(UNSET, FALSE, NoJson, IllegalArgumentException)
       ELSE IF ~storeUp THEN Response(UNSET, FALSE, NoJson, MongoException)
       ELSE LET found == FindById(todoCollection, ObjectId(id))
            IN  IF found = <<>>
                THEN Response(UNSET, FALSE, NoJson,
                       NotFoundResponse(<<"The requested todo was not found">>))
                ELSE Response(OK, TRUE, Head(found), NoException)
  /\ storeCalls' = IF IsLegalObjectId(id) THEN 1 ELSE 0
  /\ UNCHANGED <<todoCollection, nextId, storeUp>>
  /\ UNCHANGED <<deleting, clientVars>>

GetTodo(id) ==
  /\ req = NoRequest
  /\ req' = [op |-> "getTodo", id |-> id]
  /\ resp' =
       IF ~IsLegalObjectId(id)
       THEN Response(UNSET, FALSE, NoJson,
              BadRequestResponse(<<"The requested todo id wasn't a legal Mongo Object ID.">>))
       ELSE IF ~storeUp THEN Response(UNSET, FALSE, NoJson, MongoException)
       ELSE LET found == FindById(todoCollection, ObjectId(id))
            IN  IF found = <<>>
                THEN Response(UNSET, FALSE, NoJson,
                       NotFoundResponse(<<"The requested todo was not found">>))
                ELSE Response(OK, TRUE, Head(found), NoException)
  /\ storeCalls' = IF IsLegalObjectId(id) THEN 1 ELSE 0
  /\ UNCHANGED <<todoCollection, nextId, storeUp>>
  /\ UNCHANGED <<deleting, clientVars>>

\* GetTodos with ctx.status(OK) ahead of the find
GetTodosStatusFirst(params) ==
  /\ req = NoRequest
  /\ req' = [op |-> "getTodos", params |-> params]
  /\ resp' =
       IF ~storeUp THEN Response(OK, FALSE, NoJson, MongoException)
       ELSE Response(OK, TRUE, MatchingTodos(todoCollection, params), NoException)
  /\ storeCalls' = 1
  /\ UNCHANGED <<todoCollection, nextId, storeUp>>
  /\ UNCHANGED <<deleting, clientVars>>

GetTodos(params) ==
  /\ req = NoRequest
  /\ req' = [op |-> "getTodos", params |-> params]
  /\ resp' =
       IF ~storeUp THEN Response(UNSET, FALSE, NoJson, MongoException)
       ELSE Response(OK, TRUE, MatchingTodos(todoCollection, params), NoException)
  /\ storeCalls' = 1
  /\ UNCHANGED <<todoCollection, nextId, storeUp>>
  /\ UNCHANGED <<deleting, clientVars>>

\* AddNewTodo with a store that keeps the identifier the candidate supplies
AddNewTodoKeepsSuppliedId(body, evalAll) ==
  LET thrown == Validate(body, evalAll)
      newId == IF body._id # NULL THEN body._id ELSE GeneratedId(nextId)
  IN  /\ req = NoRequest
      /\ req' = [op |-> "addNewTodo", body |-> body]
      /\ UNCHANGED <<deleting, clientVars>>
      /\ UNCHANGED storeUp
      /\ storeCalls' = IF thrown # NoException THEN 0 ELSE 1
      /\ IF thrown # NoException
         THEN /\ resp' = Response(UNSET, FALSE, NoJson, thrown)
              /\ UNCHANGED <<todoCollection, nextId>>
         ELSE IF ~storeUp
         THEN /\ resp' = Response(UNSET, FALSE, NoJson, MongoException)
              /\ UNCHANGED <<todoCollection, nextId>>
         ELSE /\ nextId <= MaxIds
              /\ todoCollection' = Append(todoCollection, [body EXCEPT !._id = newId])
              /\ nextId' = nextId + 1
              /\ resp' = Response(CREATED, TRUE, [id |-> newId], NoException)

AddNewTodo(body, evalAll) ==
  LET thrown == Validate(body, evalAll)
      newId == GeneratedId(nextId)
  IN  /\ req = NoRequest
      /\ req' = [op |-> "addNewTodo", body |-> body]
      /\ UNCHANGED <<deleting, clientVars>>
      /\ UNCHANGED storeUp
      /\ storeCalls' = IF thrown # NoException THEN 0 ELSE 1
      /\ IF thrown # NoException
         THEN /\ resp' = Response(UNSET, FALSE, NoJson, thrown)
              /\ UNCHANGED <<todoCollection, nextId>>
         ELSE IF ~storeUp
         THEN /\ resp' = Response(UNSET, FALSE, NoJson, MongoException)
              /\ UNCHANGED <<todoCollection, nextId>>
         ELSE /\ nextId <= MaxIds
              /\ todoCollection' = Append(todoCollection, [body EXCEPT !._id = newId])
              /\ nextId' = nextId + 1
              /\ resp' = Response(CREATED, TRUE, [id |-> newId], NoException)

\* DeleteOne that also drops the documents stored after the one it deletes
DeleteOneAndLater(coll, oid) ==
  LET hits == {i \in 1..Len(coll) : coll[i]._id = oid}
      first == CHOOSE i \in hits : \A j \in hits : i <= j
  IN  IF hits = {} THEN coll
      ELSE SubSeq(coll, 1, first - 1)

\* deleteOne(eq("_id", oid)): the collection without the first document that
\* has the identifier
DeleteOne(coll, oid) ==
  LET hits == {i \in 1..Len(coll) : coll[i]._id = oid}
      first == CHOOSE i \in hits : \A j \in hits : i <= j
  IN  IF hits = {} THEN coll
      ELSE SubSeq(coll, 1, first - 1) \o SubSeq(coll, first + 1, Len(coll))

\* DeleteTodo without the test of getDeletedCount
DeleteTodoUnchecked(id) ==
  /\ req = NoRequest
  /\ req' = [op |-> "deleteTodo", id |-> id]
  /\ nextId' = nextId
  /\ UNCHANGED <<deleting, clientVars>>
  /\ UNCHANGED storeUp
  /\ storeCalls' = IF IsLegalObjectId(id) THEN 1 ELSE 0
  /\ IF ~IsLegalObjectId(id)
     THEN /\ resp' = Response(UNSET, FALSE, NoJson, IllegalArgumentException)
          /\ todoCollection' = todoCollection
     ELSE IF ~storeUp
     THEN /\ resp' = Response(UNSET, FALSE, NoJson, MongoException)
          /\ todoCollection' = todoCollection
     ELSE /\ todoCollection' = DeleteOne(todoCollection, ObjectId(id))
          /\ resp' = Response(OK, FALSE, NoJson, NoException)

DeleteTodo(id) ==
  /\ req = NoRequest
  /\ req' = [op |-> "deleteTodo", id |-> id]
  /\ nextId' = nextId
  /\ UNCHANGED <<deleting, clientVars>>
  /\ UNCHANGED storeUp
  /\ storeCalls' = IF IsLegalObjectId(id) THEN 1 ELSE 0
  /\ IF ~IsLegalObjectId(id)
     THEN /\ resp' = Response(UNSET, FALSE, NoJson, IllegalArgumentException)
          /\ todoCollection' = todoCollection
     ELSE IF ~storeUp
     THEN /\ resp' = Response(UNSET, FALSE, NoJson, MongoException)
          /\ todoCollection' = todoCollection
     ELSE LET after == DeleteOne(todoCollection, ObjectId(id))
              deletedCount == Len(todoCollection) - Len(after)
          IN  /\ todoCollection' = after
              /\ resp' =
                   IF deletedCount # 1
                   THEN Response(NOT_FOUND, FALSE, NoJson,
                          NotFoundResponse(<<"Was unable to delete ID ", id,
                            "; perhaps illegal ID or an ID for an item not in the system?">>))
                   ELSE Response(OK, FALSE, NoJson, NoException)

\* the response is sent and the Context of the request dropped
SendResponse ==
  /\ req # NoRequest
  /\ req' = NoRequest
  /\ resp' = NoResponse
  /\ storeCalls' = 0
  /\ UNCHANGED <<todoCollection, nextId, storeUp>>
  /\ UNCHANGED <<deleting, clientVars>>

Next ==
  \/ \E id \in PathIds : GetTodo(id)
  \/ \E params \in Queries : GetTodos(params)
  \/ \E body \in Candidates, evalAll \in BOOLEAN : AddNewTodo(body, evalAll)
  \/ \E id \in PathIds : DeleteTodo(id)
  \/ SendResponse

Spec == Init /\ [][Next]_vars

\* the server over a store that is reachable or not
InitStore ==
  /\ \E up \in BOOLEAN : InitServer(up)
  /\ NoDeletes
  /\ NoClient

SpecStore == InitStore /\ [][Next]_vars

-----------------------------------------------------------------------------
(* Delete requests side by side.  The server runs each request on a thread *)
(* of its own; the handlers share the collection only, and deleteOne is one *)
(* atomic operation of the store.  DeleteTodo above is DeleteCall followed *)
(* by DeleteAnswer with no other request in between.                       *)

\* the ids the requests delete: those of the fixture, and one that is illegal
DeleteIds == {GeneratedId(k) : k \in 1..MaxSeed} \cup {<<"b", "a", "d">>}

\* a delete request that has not run yet
Arrived(id) ==
  [id |-> id, pc |-> "arrived", deletedCount |-> 0, status |-> UNSET, thrown |-> NoException]

InitDelete ==
  /\ InitServer(TRUE)
  /\ deleting \in [1..MaxDeletes -> {Arrived(id) : id \in DeleteIds}]
  /\ NoClient

\* DeleteCall with a result that counts one deletion whatever was removed
DeleteCallCountsOne(r) ==
  LET id == deleting[r].id
  IN  /\ deleting[r].pc = "arrived"
      /\ IF ~IsLegalObjectId(id)
         THEN /\ deleting' = [deleting EXCEPT ![r].pc = "answered",
                                              ![r].thrown = IllegalArgumentException]
              /\ todoCollection' = todoCollection
         ELSE /\ todoCollection' = DeleteOne(todoCollection, ObjectId(id))
              /\ deleting' = [deleting EXCEPT ![r].pc = "called", ![r].deletedCount = 1]
      /\ UNCHANGED <<nextId, req, resp, storeUp, storeCalls>>
      /\ UNCHANGED clientVars

\* request r runs deleteTodo up to the return of deleteOne(eq("_id", new ObjectId(id)))
DeleteCall(r) ==
  LET id == deleting[r].id
  IN  /\ deleting[r].pc = "arrived"
      /\ IF ~IsLegalObjectId(id)
         THEN /\ deleting' = [deleting EXCEPT ![r].pc = "answered",
                                              ![r].thrown = IllegalArgumentException]
              /\ todoCollection' = todoCollection
         ELSE LET after == DeleteOne(todoCollection, ObjectId(id))
              IN  /\ todoCollection' = after
                  /\ deleting' = [deleting EXCEPT
                       ![r].pc = "called",
                       ![r].deletedCount = Len(todoCollection) - Len(after)]
      /\ UNCHANGED <<nextId, req, resp, storeUp, storeCalls>>
      /\ UNCHANGED clientVars

\* request r runs the rest of deleteTodo: the test of getDeletedCount
DeleteAnswer(r) ==
  /\ deleting[r].pc = "called"
  /\ deleting' =
       IF deleting[r].deletedCount # 1
       THEN [deleting EXCEPT
              ![r].pc = "answered",
              ![r].status = NOT_FOUND,
              ![r].thrown = NotFoundResponse(<<"Was unable to delete ID ", deleting[r].id,
                "; perhaps illegal ID or an ID for an item not in the system?">>)]
       ELSE [deleting EXCEPT ![r].pc = "answered", ![r].status = OK]
  /\ UNCHANGED <<todoCollection, nextId, req, resp, storeUp, storeCalls>>
  /\ UNCHANGED clientVars

NextDelete ==
  \/ \E r \in 1..MaxDeletes : DeleteCall(r)
  \/ \E r \in 1..MaxDeletes : DeleteAnswer(r)

SpecDelete == InitDelete /\ [][NextDelete]_vars

\* the service on its own: a call of filterTodos with any array and any
\* filters object is about to run
\* a server that holds nothing and serves nothing
NoServer ==
  /\ todoCollection = <<>>
  /\ nextId = 1
  /\ req = NoRequest
  /\ resp = NoResponse
  /\ storeUp = TRUE
  /\ storeCalls = 0
  /\ NoDeletes

InitFilter ==
  /\ NoServer
  /\ \E ts \in TodoArrays, fs \in FilterObjects :
       /\ call = [op |-> "filterTodos", todos |-> ts, filters |-> fs]
       /\ todos = ts
       /\ filtersObject = fs
  /\ result = NoResult
  /\ NoTodoList
  /\ NoAddTodo

\* the call runs to its return or its throw
FilterTodos ==
  LET outcome == FilterTodosOutcome(todos, filtersObject)
  IN  /\ call # NoCall
      /\ result = NoResult
      /\ filtersObject' = outcome.filters
      /\ result' = [thrown |-> outcome.thrown,
                    returned |-> outcome.thrown = "none",
                    value |-> outcome.value]
      /\ UNCHANGED <<call, todos>>
      /\ UNCHANGED <<todoList, httpGets, addTodoForm, location, httpPosts>>
      /\ UNCHANGED serverVars

NextFilter == FilterTodos

SpecFilter == InitFilter /\ [][NextFilter]_vars

-----------------------------------------------------------------------------
(* The TodoListComponent: its lifecycle hooks, the events of its controls  *)
(* and the answers to its requests.                                        *)

InitTodoList ==
  /\ NoServer
  /\ NoFilterCall
  /\ NoTodoList
  /\ NoAddTodo

\* the rest of the state, which the component does not touch
NotOfTodoList ==
  UNCHANGED <<serverVars, call, todos, filtersObject, result, addTodoForm, location, httpPosts>>

\* ngOnInit(): getTodosFromServer()
NgOnInit ==
  /\ httpGets = <<>>
  /\ todoList.ngUnsubscribe = "open"
  /\ httpGets' = <<GetOf(todoList)>>
  /\ UNCHANGED todoList
  /\ NotOfTodoList

\* the template is shown and its controls can be used
Rendered == httpGets # <<>> /\ todoList.ngUnsubscribe = "open"

\* todoOwnerInput: [(ngModel)]="todoOwner" (input)="updateFilter()"
OwnerInput(v) ==
  /\ Rendered
  /\ todoList' = UpdateFilter([todoList EXCEPT !.todoOwner = v])
  /\ UNCHANGED httpGets
  /\ NotOfTodoList

\* todoStatusSelect: [(ngModel)]="todoStatus" (selectionChange)="updateFilter()"
StatusSelect(v) ==
  /\ Rendered
  /\ todoList' = UpdateFilter([todoList EXCEPT !.todoStatus = v])
  /\ UNCHANGED httpGets
  /\ NotOfTodoList

\* todoOrderSelect: [(ngModel)]="todoOrder" (selectionChange)="updateFilter()"
OrderSelect(v) ==
  /\ Rendered
  /\ todoList' = UpdateFilter([todoList EXCEPT !.todoOrder = v])
  /\ UNCHANGED httpGets
  /\ NotOfTodoList

\* CategorySelect with (selectionChange)="getTodosFromServer()"
CategorySelectFromServer(v) ==
  /\ Rendered
  /\ Len(httpGets) < MaxGets
  /\ todoList' = [todoList EXCEPT !.todoCategory = v]
  /\ httpGets' = Append(httpGets, GetOf(todoList'))
  /\ NotOfTodoList

\* todoCategorySelect: [(ngModel)]="todoCategory" (selectionChange)="updateFilter()"
CategorySelect(v) ==
  /\ Rendered
  /\ todoList' = UpdateFilter([todoList EXCEPT !.todoCategory = v])
  /\ UNCHANGED httpGets
  /\ NotOfTodoList

\* todoLimitInput: [(ngModel)]="todoLimit" (input)="updateFilter()"
LimitInput(v) ==
  /\ Rendered
  /\ todoList' = UpdateFilter([todoList EXCEPT !.todoLimit = v])
  /\ UNCHANGED httpGets
  /\ NotOfTodoList

\* todoBodyInput: [(ngModel)]="todoBody" (input)="getTodosFromServer()"
BodyInput(v) ==
  /\ Rendered
  /\ Len(httpGets) < MaxGets
  /\ todoList' = [todoList EXCEPT !.todoBody = v]
  /\ httpGets' = Append(httpGets, GetOf(todoList'))
  /\ NotOfTodoList

\* GetTodosNext without the call of updateFilter()
GetTodosNextNoUpdateFilter(k, returnedTodos) ==
  /\ httpGets[k].state \in {"outstanding", "unsubscribed"}
  /\ IF httpGets[k].state = "outstanding"
     THEN /\ todoList' = [todoList EXCEPT !.serverFilteredTodos = returnedTodos]
          /\ httpGets' = [httpGets EXCEPT ![k].state = "next", ![k].returned = returnedTodos]
     ELSE /\ httpGets' = [httpGets EXCEPT ![k].state = "dropped", ![k].returned = returnedTodos]
          /\ UNCHANGED todoList
  /\ NotOfTodoList

\* the answer to the k-th GET arrives; its subscriber, if it still has one,
\* runs next: (returnedTodos) => {...}
GetTodosNext(k, returnedTodos) ==
  /\ httpGets[k].state \in {"outstanding", "unsubscribed"}
  /\ IF httpGets[k].state = "outstanding"
     THEN /\ todoList' = UpdateFilter([todoList EXCEPT !.serverFilteredTodos = returnedTodos])
          /\ httpGets' = [httpGets EXCEPT ![k].state = "next", ![k].returned = returnedTodos]
     ELSE /\ httpGets' = [httpGets EXCEPT ![k].state = "dropped", ![k].returned = returnedTodos]
          /\ UNCHANGED todoList
  /\ NotOfTodoList

\* the dash of the messages, which is no ASCII character
EnDash == "U+2013"

\* the message error: (err) => {...} builds, as the sequence of its parts
ErrMsg(err) ==
  IF err.error = "ErrorEvent"
  THEN <<"Problem in the client ", EnDash, " Error: ", err.errorMessage>>
  ELSE <<"Problem contacting the server ", EnDash, " Error Code: ", err.status,
         "\nMessage: ", err.message>>

\* GetTodosError with an error: that also forgets the todos
GetTodosErrorForgetsTodos(k, err) ==
  /\ httpGets[k].state \in {"outstanding", "unsubscribed"}
  /\ IF httpGets[k].state = "outstanding"
     THEN /\ todoList' = [todoList EXCEPT !.errMsg = ErrMsg(err),
                                          !.serverFilteredTodos = UndefinedTodos]
          /\ httpGets' = [httpGets EXCEPT ![k].state = "error", ![k].returned = err]
     ELSE /\ httpGets' = [httpGets EXCEPT ![k].state = "dropped", ![k].returned = err]
          /\ UNCHANGED todoList
  /\ NotOfTodoList

\* the k-th GET fails; its subscriber, if it still has one, runs
\* error: (err) => {...}
GetTodosError(k, err) ==
  /\ httpGets[k].state \in {"outstanding", "unsubscribed"}
  /\ IF httpGets[k].state = "outstanding"
     THEN /\ todoList' = [todoList EXCEPT !.errMsg = ErrMsg(err)]
          /\ httpGets' = [httpGets EXCEPT ![k].state = "error", ![k].returned = err]
     ELSE /\ httpGets' = [httpGets EXCEPT ![k].state = "dropped", ![k].returned = err]
          /\ UNCHANGED todoList
  /\ NotOfTodoList

\* NgOnDestroy without ngUnsubscribe.next()
NgOnDestroyKeepsSubscriptions ==
  /\ Rendered
  /\ todoList' = [todoList EXCEPT !.ngUnsubscribe = "completed"]
  /\ UNCHANGED httpGets
  /\ NotOfTodoList

\* ngOnDestroy(): ngUnsubscribe.next() ends, through takeUntil, every
\* subscription that still waits; ngUnsubscribe.complete()
NgOnDestroy ==
  /\ Rendered
  /\ todoList' = [todoList EXCEPT !.ngUnsubscribe = "completed"]
  /\ httpGets' = [k \in DOMAIN httpGets |->
       IF httpGets[k].state = "outstanding"
       THEN [httpGets[k] EXCEPT !.state = "unsubscribed"]
       ELSE httpGets[k]]
  /\ NotOfTodoList

NextTodoList ==
  \/ NgOnInit
  \/ \E v \in OwnerInputs : OwnerInput(v)
  \/ \E v \in StatusOptions : StatusSelect(v)
  \/ \E v \in OrderOptions : OrderSelect(v)
  \/ \E v \in CategoryOptions : CategorySelect(v)
  \/ \E v \in LimitInputs : LimitInput(v)
  \/ \E v \in BodyInputs : BodyInput(v)
  \/ \E k \in DOMAIN httpGets, returnedTodos \in ReturnedTodos : GetTodosNext(k, returnedTodos)
  \/ \E k \in DOMAIN httpGets, err \in HttpErrors : GetTodosError(k, err)
  \/ NgOnDestroy

SpecTodoList == InitTodoList /\ [][NextTodoList]_vars

-----------------------------------------------------------------------------
(* The AddTodoComponent: its form, submitForm() and the answers to the     *)
(* POST requests of addTodo.                                               *)

InitAddTodo ==
  /\ NoServer
  /\ NoFilterCall
  /\ NoTodoList
  /\ addTodoForm = NewAddTodoForm
  /\ location = AddTodoPath
  /\ httpPosts = <<>>

\* the rest of the state, which the component does not touch
NotOfAddTodo ==
  UNCHANGED <<serverVars, call, todos, filtersObject, result, todoList, httpGets>>

\* the user enters v in a control of the form
SetValue(control, v) ==
  /\ location = AddTodoPath
  /\ addTodoForm' = [addTodoForm EXCEPT ![control] = v]
  /\ UNCHANGED <<location, httpPosts>>
  /\ NotOfAddTodo

\* submitForm(): todoService.addTodo(this.addTodoForm.value).subscribe({...});
\* addTodo posts its argument to todoUrl
SubmitForm ==
  /\ location = AddTodoPath
  /\ Len(httpPosts) < MaxPosts
  /\ httpPosts' = Append(httpPosts,
       [url |-> "todoUrl", body |-> addTodoForm, state |-> "outstanding", id |-> Undefined])
  /\ UNCHANGED <<addTodoForm, location>>
  /\ NotOfAddTodo

\* the answer to the k-th POST arrives: map(res => res.id), then
\* next: (newId) => {...; this.router.navigate(['/todos/', newId])}
AddTodoNext(k, res) ==
  /\ httpPosts[k].state = "outstanding"
  /\ httpPosts' = [httpPosts EXCEPT ![k].state = "next", ![k].id = res.id]
  /\ location' = <<"/todos/", res.id>>
  /\ UNCHANGED addTodoForm
  /\ NotOfAddTodo

\* AddTodoError with an error: that leaves the form for the list
AddTodoErrorLeavesForm(k, err) ==
  /\ httpPosts[k].state = "outstanding"
  /\ httpPosts' = [httpPosts EXCEPT ![k].state = "error"]
  /\ location' = <<"/todos/", <<>>>>
  /\ UNCHANGED addTodoForm
  /\ NotOfAddTodo

\* the k-th POST fails: error: err => {this.snackBar.open(...)}
AddTodoError(k, err) ==
  /\ httpPosts[k].state = "outstanding"
  /\ httpPosts' = [httpPosts EXCEPT ![k].state = "error"]
  /\ UNCHANGED <<addTodoForm, location>>
  /\ NotOfAddTodo

NextAddTodo ==
  \/ \E control \in DOMAIN FormInputs : \E v \in FormInputs[control] : SetValue(control, v)
  \/ SubmitForm
  \/ \E k \in DOMAIN httpPosts, res \in PostResponses : AddTodoNext(k, res)
  \/ \E k \in DOMAIN httpPosts, err \in HttpErrors : AddTodoError(k, err)

SpecAddTodo == InitAddTodo /\ [][NextAddTodo]_vars

-----------------------------------------------------------------------------
(* Properties of the list request. *)

\* the statuses and exceptions as the outcomes the description names
Threw(type) == resp.thrown.type = type

\* value occurs in field as a run of characters, letter case ignored
OccursIgnoringCase(value, field) ==
  \E k \in 0..(Len(field) - Len(value)) :
    \A i \in 1..Len(value) : LowerChar[field[k + i]] = LowerChar[value[i]]

\* todo passes every one of the keys owner, body and category the query carries
PassesTextKeys(params, todo) ==
  /\ params[OWNER_KEY] # NULL => OccursIgnoringCase(params[OWNER_KEY], todo.owner)
  /\ params[BODY_KEY] # NULL => OccursIgnoringCase(params[BODY_KEY], todo.body)
  /\ params[CATEGORY_KEY] # NULL => OccursIgnoringCase(params[CATEGORY_KEY], todo.category)

NoDuplicates(seq) == Cardinality(Range(seq)) = Len(seq)

\* C1: a list request that carries any of the keys owner, body and category
\* (and no status key) returns exactly the documents of the collection in
\* which every carried key's value occurs, letter case ignored, in the
\* document's field; a document that fails one carried key is left out.
C1_ListReturnsExactlyTheMatches ==
  (req.op = "getTodos" /\ req.params[STATUS_KEY] = NULL)
    => /\ resp.hasJson
       /\ NoDuplicates(resp.json)
       /\ Range(resp.json) =
            {todo \in Range(todoCollection) : PassesTextKeys(req.params, todo)}

\* a query for owner "RR" and a body text that keeps one document (by letter
\* case folding) and leaves another out
C1_Witness ==
  /\ req.op = "getTodos"
  /\ req.params[STATUS_KEY] = NULL
  /\ req.params[OWNER_KEY] = <<"R", "R">>
  /\ req.params[BODY_KEY] # NULL
  /\ Len(resp.json) > 0
  /\ Len(resp.json) < Len(todoCollection)

\* C2: a list request with none of the filter keys returns every document of
\* the collection, as many as the collection holds, with status OK.
C2_UnfilteredListReturnsAll ==
  (req.op = "getTodos" /\ \A key \in FilterKeys : req.params[key] = NULL)
    => /\ resp.status = OK
       /\ resp.hasJson
       /\ Len(resp.json) = Len(todoCollection)
       /\ Range(resp.json) = Range(todoCollection)

C2_Witness ==
  /\ req.op = "getTodos"
  /\ \A key \in FilterKeys : req.params[key] = NULL
  /\ Len(todoCollection) >= 2
  /\ Len(resp.json) = Len(todoCollection)

-----------------------------------------------------------------------------
(* Properties of delete. *)

\* the step is the handling of a delete request
DeleteStep == req = NoRequest /\ req'.op = "deleteTodo"

\* identifiers the store has generated so far
Generated == {GeneratedId(k) : k \in 1..(nextId - 1)}

\* C3: the delete of the identifier of an existing document succeeds, every
\* later delete of that identifier fails with NotFound (the identifier never
\* comes back: no insert is given it), and a delete that removes nothing does
\* not report success.
C3_DeleteSucceedsOnce ==
  [][ /\ DeleteStep /\ IsLegalObjectId(req'.id)
        => LET oid == ObjectId(req'.id)
           IN  /\ oid \in Ids(todoCollection)
                    => /\ resp'.status = OK
                       /\ resp'.thrown = NoException
                       /\ oid \notin Ids(todoCollection')
               /\ oid \notin Ids(todoCollection)
                    => /\ resp'.thrown.type = "NotFoundResponse"
                       /\ resp'.status = NOT_FOUND
      /\ DeleteStep /\ todoCollection' = todoCollection => resp'.status # OK
      /\ \A oid \in Generated :
           oid \notin Ids(todoCollection) => oid \notin Ids(todoCollection')
    ]_vars

\* a delete of an identifier that was in the collection and is not any more
C3_Witness ==
  /\ req.op = "deleteTodo"
  /\ IsLegalObjectId(req.id)
  /\ ObjectId(req.id) \in Generated
  /\ Threw("NotFoundResponse")
  /\ resp.status = NOT_FOUND

\* C4: the delete of the identifier of an existing document removes that
\* document and no other, sets the status OK, and leaves every other document
\* as it was.
C4_DeleteRemovesExactlyOne ==
  [][ (DeleteStep /\ IsLegalObjectId(req'.id)
         /\ ObjectId(req'.id) \in Ids(todoCollection))
        => LET Others(todo) == todo._id # ObjectId(req'.id)
           IN  /\ resp'.status = OK
               /\ Len(todoCollection') = Len(todoCollection) - 1
               /\ todoCollection' = SelectSeq(todoCollection, Others)
               /\ nextId' = nextId
    ]_vars

\* a successful delete that left other documents behind
C4_Witness ==
  /\ req.op = "deleteTodo"
  /\ resp.status = OK
  /\ Len(todoCollection) >= 1
  /\ ObjectId(req.id) \notin Ids(todoCollection)

-----------------------------------------------------------------------------
(* Properties of lookup. *)

\* C5: a lookup by a string that is no legal identifier fails with the
\* client error "The requested todo id wasn't a legal Mongo Object ID.", not
\* with NotFound and not with a document.
C5_LookupMalformedIdentifier ==
  (req.op = "getTodo" /\ ~IsLegalObjectId(req.id))
    => /\ resp.thrown =
            BadRequestResponse(<<"The requested todo id wasn't a legal Mongo Object ID.">>)
       /\ ~resp.hasJson
       /\ resp.status = UNSET

\* a lookup by a 24-character string with a character that is no hex digit
C5_Witness ==
  /\ req.op = "getTodo"
  /\ req.id # NULL
  /\ Len(req.id) = 24
  /\ ~IsLegalObjectId(req.id)
  /\ Threw("BadRequestResponse")

\* C6: a lookup by a well-formed identifier returns, with status OK, the one
\* document of the collection that carries the identifier when there is one,
\* and fails with NotFound "The requested todo was not found" otherwise.
C6_LookupWellFormedIdentifier ==
  (req.op = "getTodo" /\ IsLegalObjectId(req.id))
    => LET carriers == {i \in 1..Len(todoCollection) :
                          todoCollection[i]._id = ObjectId(req.id)}
       IN  IF carriers # {}
           THEN /\ Cardinality(carriers) = 1
                /\ resp.status = OK
                /\ resp.hasJson
                /\ \A i \in carriers : resp.json = todoCollection[i]
                /\ resp.thrown = NoException
           ELSE /\ resp.thrown = NotFoundResponse(<<"The requested todo was not found">>)
                /\ ~resp.hasJson
                /\ resp.status = UNSET

\* a lookup that found a document which is not the first of the collection
C6_Witness ==
  /\ req.op = "getTodo"
  /\ resp.hasJson
  /\ resp.status = OK
  /\ Len(todoCollection) >= 2
  /\ resp.json # todoCollection[1]

-----------------------------------------------------------------------------
(* Properties of insert. *)

\* the step is the handling of an insert request
AddStep == req = NoRequest /\ req'.op = "addNewTodo"

BodyMinLength == 2
BodyMaxLength == 300

Blank(text) == text = NULL \/ Len(text) = 0

\* C7 (as stated): an insert whose candidate has an empty or missing body, a
\* missing or empty owner, or a category outside the enumeration fails with
\* ValidationFailed, and returns no identifier and no created status.
C7_InvalidCandidateFailsValidation ==
  (req.op = "addNewTodo"
     /\ (Blank(req.body.body) \/ Blank(req.body.owner) \/ req.body.category \notin CAT_REGEX))
    => /\ Threw("ValidationException")
       /\ ~resp.hasJson
       /\ resp.status # CREATED

ValidTodo(todo) ==
  /\ ~Blank(todo.owner)
  /\ todo.body # NULL
  /\ Len(todo.body) \in BodyMinLength..BodyMaxLength
  /\ todo.category \in CAT_REGEX
  /\ todo.status \in BOOLEAN

\* C9 (as stated): every document of the collection has a non-empty owner, a
\* body of 2 to 300 characters, a category of the enumeration and a boolean
\* status, after any sequence of inserts and deletes.
C9_PersistedTodosAreValid ==
  \A i \in 1..Len(todoCollection) : ValidTodo(todoCollection[i])

\* C10 (as stated): an insert accepts every candidate with a non-empty owner,
\* a body of 2 to 300 characters, a category of the enumeration and a status,
\* be the status true or false.
C10_ValidCandidateIsAccepted ==
  (req.op = "addNewTodo" /\ ValidTodo(req.body))
    => /\ resp.status = CREATED
       /\ resp.thrown = NoException

-----------------------------------------------------------------------------
(* Properties of the order and of the status filter of a list. *)

\* the text a document is sorted on, for the fields of this model's queries
SortText(todo, field) == IF field = OWNER_KEY THEN todo.owner ELSE todo.body

\* seq is in ascending order of the field
AscendingOn(seq, field) ==
  \A i, j \in 1..Len(seq) :
    i < j => ~LexLess(SortText(seq[j], field), SortText(seq[i], field))

\* seq is in descending order of the field
DescendingOn(seq, field) ==
  \A i, j \in 1..Len(seq) :
    i < j => ~LexLess(SortText(seq[i], field), SortText(seq[j], field))

\* C12: the list is in descending order of the sort field exactly when
\* sortorder is the literal "desc"; for "asc", "DESC" and an absent sortorder
\* it is in ascending order.
C12_DescendingOnlyForDesc ==
  (req.op = "getTodos" /\ req.params[SORTBY_KEY] \in {OWNER_KEY, BODY_KEY})
    => IF req.params[SORTORDER_KEY] = DESC
       THEN DescendingOn(resp.json, req.params[SORTBY_KEY])
       ELSE AscendingOn(resp.json, req.params[SORTBY_KEY])

\* a list asked for in "desc" order of owner whose first owner sorts after its
\* second
C12_Witness ==
  /\ req.op = "getTodos"
  /\ req.params[SORTBY_KEY] = OWNER_KEY
  /\ req.params[SORTORDER_KEY] = DESC
  /\ Len(resp.json) >= 2
  /\ LexLess(resp.json[2].owner, resp.json[1].owner)

\* C13 (as stated): without sortby the list is ordered by owner, ascending
\* unless sortorder is "desc".
C13_DefaultOrderIsByOwner ==
  (req.op = "getTodos" /\ req.params[SORTBY_KEY] = NULL)
    => IF req.params[SORTORDER_KEY] = DESC
       THEN DescendingOn(resp.json, OWNER_KEY)
       ELSE AscendingOn(resp.json, OWNER_KEY)

\* the status of a document read as text
StatusText(status) ==
  IF status THEN <<"t", "r", "u", "e">> ELSE <<"f", "a", "l", "s", "e">>

\* C14 (as stated): a list request with the status key returns exactly the
\* documents whose status, read as text, contains the value, letter case
\* ignored, and which pass the other keys of the query.
C14_StatusFilterMatchesText ==
  (req.op = "getTodos" /\ req.params[STATUS_KEY] # NULL)
    => Range(resp.json) =
         {todo \in Range(todoCollection) :
            /\ OccursIgnoringCase(req.params[STATUS_KEY], StatusText(todo.status))
            /\ PassesTextKeys(req.params, todo)}

-----------------------------------------------------------------------------
(* Properties of filterTodos. *)

\* the call of filterTodos returned, and its filters object had only
\* properties among keys
ReturnedFor(keys) ==
  /\ call.op = "filterTodos"
  /\ result.returned
  /\ DOMAIN call.filters \subseteq keys

\* todo contains, letter case kept, the text of each of owner, body and
\* category that fs has
ContainsEach(todo, fs) ==
  \A key \in {"owner", "body", "category"} :
    Has(fs, key) => Contains(todo[key], fs[key])

\* C15 (as stated): with any of owner, body and category in the filters,
\* filterTodos returns exactly the todos of its input that contain each text
\* supplied, as owner "i" over Chris, Pat and Jamie gives Chris and Jamie.
C15_SubstringFiltersSelect ==
  ReturnedFor({"owner", "body", "category"})
    => LET Keep(todo) == ContainsEach(todo, call.filters)
       IN  result.value = SelectSeq(call.todos, Keep)

\* C16 (as stated): with a status in the filters, filterTodos returns exactly
\* the todos of its input that have this status; without one it returns them
\* all.
C16_StatusFilterSelects ==
  ReturnedFor({"status"})
    => LET Keep(todo) == Has(call.filters, "status") => todo.status = call.filters.status
       IN  result.value = SelectSeq(call.todos, Keep)

\* the field of a todo that an order names
OrderText(todo, order) ==
  IF order = OWNER_KEY THEN todo.owner
  ELSE IF order = BODY_KEY THEN todo.body
  ELSE todo.category

\* C17 (as stated): with an order of owner, category or body, filterTodos
\* returns the todos in ascending lexical order of this field.
C17_OrderSortsAscending ==
  (ReturnedFor({"order"}) /\ Has(call.filters, "order"))
    => /\ Range(result.value) = Range(call.todos)
       /\ \A i, j \in 1..Len(result.value) :
            i < j => ~LexLess(OrderText(result.value[j], call.filters.order),
                              OrderText(result.value[i], call.filters.order))

\* C18 (as stated): with a limit N > 0, filterTodos returns the first N todos
\* (all when there are fewer); with N <= 0 or no limit, all of them.
C18_LimitTruncates ==
  ReturnedFor({"limit"})
    => result.value =
         IF Has(call.filters, "limit") /\ call.filters.limit > 0
         THEN SubSeq(call.todos, 1, Min(call.filters.limit, Len(call.todos)))
         ELSE call.todos

\* C19 (as stated): a todo whose owner, body or category contains the text of
\* the filters only in another letter case is not returned.
C19_ClientFiltersKeepCase ==
  ReturnedFor({"owner", "body", "category"})
    => \A i \in 1..Len(call.todos) :
         (\E key \in DOMAIN call.filters :
            /\ ~Contains(call.todos[i][key], call.filters[key])
            /\ Contains(ToLower(call.todos[i][key]), ToLower(call.filters[key])))
           => call.todos[i] \notin Range(result.value)

\* C20 (as stated): filterTodos leaves its array, the todos in it and its
\* filters object as they were passed, and returns todos of its input, none
\* twice.
C20_FilterTodosIsPure ==
  (call.op = "filterTodos" /\ result.returned)
    => /\ todos = call.todos
       /\ filtersObject = call.filters
       /\ Range(result.value) \subseteq Range(call.todos)
       /\ \A i, j \in 1..Len(result.value) :
            i # j => result.value[i] # result.value[j]

-----------------------------------------------------------------------------
(* Properties of the delete of an identifier the store cannot parse. *)

\* C24 (as stated): a delete by a string that is no legal identifier answers
\* with the not-found status and the "Was unable to delete ID" message, as a
\* delete of a well-formed identifier that matches nothing does, and leaves
\* the collection as it was.
C24_DeleteMalformedIsNotFound ==
  [][ (DeleteStep /\ ~IsLegalObjectId(req'.id))
        => /\ resp'.status = NOT_FOUND
           /\ resp'.thrown =
                NotFoundResponse(<<"Was unable to delete ID ", req'.id,
                  "; perhaps illegal ID or an ID for an item not in the system?">>)
           /\ todoCollection' = todoCollection ]_vars

-----------------------------------------------------------------------------
(* Properties of the store calls of a request. *)

\* C25: the handler of a request calls the store at most once, and when this
\* call fails the request fails with it: no second call, no status set, no
\* body given, the collection as it was.
C25_OneStoreCallNoRetry ==
  [][ (req = NoRequest /\ req' # NoRequest)
        => /\ storeCalls' <= 1
           /\ Threw("MongoException")' =>
                /\ storeCalls' = 1
                /\ resp'.status = UNSET
                /\ ~resp'.hasJson
                /\ todoCollection' = todoCollection ]_vars

\* a list request whose find failed
C25_Witness ==
  /\ req.op = "getTodos"
  /\ Threw("MongoException")
  /\ storeCalls = 1
  /\ resp.status = UNSET

-----------------------------------------------------------------------------
(* Properties of deletes that run side by side. *)

\* the requests that delete the identifier id
Deleting(id) == {r \in DOMAIN deleting : deleting[r].id = id}

\* C28: when two or more requests delete the identifier of the same stored
\* document side by side and all have been answered, one of them was answered
\* OK, each other one NotFound, and the document is gone.
C28_ConcurrentDeletesOneWins ==
  \A id \in Generated :
    (/\ Cardinality(Deleting(id)) >= 2
     /\ \A r \in Deleting(id) : deleting[r].pc = "answered")
      => /\ \E r \in Deleting(id) :
              /\ deleting[r].status = OK
              /\ deleting[r].thrown = NoException
              /\ \A q \in Deleting(id) \ {r} :
                   /\ deleting[q].status = NOT_FOUND
                   /\ deleting[q].thrown.type = "NotFoundResponse"
         /\ id \notin Ids(todoCollection)

\* three requests that deleted the first document of the fixture, all answered
C28_Witness ==
  /\ deleting # <<>>
  /\ GeneratedId(1) \in Generated
  /\ Cardinality(Deleting(GeneratedId(1))) = MaxDeletes
  /\ \A r \in DOMAIN deleting : deleting[r].pc = "answered"

-----------------------------------------------------------------------------
(* Properties of getTodos and of the TodoListComponent. *)

\* a filter value that was supplied: neither undefined nor the empty text
Supplied(value) == value # Undefined /\ value # <<>>

\* the query the description gives getTodos for the filters of component c
DescribedParams(c) ==
  LET given == [owner |-> c.todoOwner, category |-> c.todoCategory, body |-> c.todoBody]
      keys == {key \in DOMAIN given : Supplied(given[key])}
              \cup (IF c.todoStatus = <<"t", "r", "u", "e">> THEN {"status"} ELSE {})
  IN  [key \in keys |-> IF key = "status" THEN c.todoStatus ELSE given[key]]

\* C21 (as stated): getTodos issues one GET to todoUrl whose query holds
\* exactly the owner, category and body that were supplied, and the status
\* when it is true, under these names, and nothing when no filter is given.
C21_GetCarriesTheFilters ==
  [][ httpGets' # httpGets /\ Len(httpGets') > Len(httpGets)
        => /\ Len(httpGets') = Len(httpGets) + 1
           /\ httpGets'[Len(httpGets')].url = "todoUrl"
           /\ httpGets'[Len(httpGets')].params = DescribedParams(todoList') ]_vars

\* C22: when a fetch of the component fails, serverFilteredTodos and
\* filteredTodos keep their values (undefined when no fetch has succeeded)
\* and errMsg begins "Problem contacting the server - Error Code:", or
\* "Problem in the client" when the error is an ErrorEvent.
C22_FailedFetchKeepsTodos ==
  [][ \A k \in DOMAIN httpGets :
        (httpGets[k].state = "outstanding" /\ httpGets'[k].state = "error")
          => /\ todoList'.serverFilteredTodos = todoList.serverFilteredTodos
             /\ todoList'.filteredTodos = todoList.filteredTodos
             /\ IF httpGets'[k].returned.error = "ErrorEvent"
                THEN todoList'.errMsg[1] = "Problem in the client "
                ELSE SubSeq(todoList'.errMsg, 1, 3) =
                       <<"Problem contacting the server ", EnDash, " Error Code: ">> ]_vars

\* a fetch failed after another had brought todos, which are still there
C22_Witness ==
  /\ \E k \in DOMAIN httpGets : httpGets[k].state = "error"
  /\ \E k \in DOMAIN httpGets : httpGets[k].state = "next"
  /\ todoList.serverFilteredTodos = testTodos
  /\ todoList.filteredTodos = testTodos
  /\ todoList.errMsg # <<>>
  /\ todoList.errMsg[1] = "Problem contacting the server "

\* C26: a change of the owner, status, category, limit or sort control
\* recomputes filteredTodos from serverFilteredTodos and issues no request; a
\* change of the body control issues one.
C26_OnlyBodyGoesToTheServer ==
  [][ /\ (\E field \in {"todoOwner", "todoStatus", "todoCategory", "todoLimit", "todoOrder"} :
            todoList'[field] # todoList[field])
        => /\ httpGets' = httpGets
           /\ todoList'.serverFilteredTodos = todoList.serverFilteredTodos
           /\ todoList' = UpdateFilter(todoList')
      /\ todoList'.todoBody # todoList.todoBody
        => /\ Len(httpGets') = Len(httpGets) + 1
           /\ httpGets'[Len(httpGets')].state = "outstanding" ]_vars

\* the category was chosen after the first fetch had brought the todos, and
\* no second request was issued
C26_Witness ==
  /\ todoList.todoCategory = Homework
  /\ Len(httpGets) = 1
  /\ httpGets[1].state = "next"
  /\ todoList.filteredTodos = testTodos

\* C27: once ngOnDestroy has run, no answer to a request issued before it
\* changes serverFilteredTodos, filteredTodos or errMsg.
C27_NoChangeAfterDestroy ==
  [][ todoList.ngUnsubscribe = "completed"
        => /\ todoList'.serverFilteredTodos = todoList.serverFilteredTodos
           /\ todoList'.filteredTodos = todoList.filteredTodos
           /\ todoList'.errMsg = todoList.errMsg ]_vars

\* the answer to a request arrived after ngOnDestroy and was dropped
C27_Witness ==
  /\ todoList.ngUnsubscribe = "completed"
  /\ \E k \in DOMAIN httpGets :
       httpGets[k].state = "dropped" /\ httpGets[k].returned = testTodos
  /\ todoList.serverFilteredTodos # testTodos

\* C29 (as stated): when the answers to several requests of the component
\* have all arrived, in whatever order, serverFilteredTodos is the answer to
\* the request issued last.
C29_LastIssuedRequestWins ==
  (/\ Len(httpGets) >= 2
   /\ \A k \in DOMAIN httpGets : httpGets[k].state = "next")
    => todoList.serverFilteredTodos = httpGets[Len(httpGets)].returned

\* C30: whenever no request of the component waits for its answer,
\* filteredTodos is filterTodos of serverFilteredTodos and the values of the
\* owner, status, body, category, limit and sort controls.
C30_FilteredTodosFollowControls ==
  (\A k \in DOMAIN httpGets : httpGets[k].state \notin {"outstanding", "unsubscribed"})
    => todoList.filteredTodos =
         FilterTodosOutcome(todoList.serverFilteredTodos,
           [owner |-> todoList.todoOwner, status |-> todoList.todoStatus,
            body |-> todoList.todoBody, category |-> todoList.todoCategory,
            limit |-> todoList.todoLimit, order |-> todoList.todoOrder]).value

\* both fetches were answered, the second with other todos than the first,
\* and the owner control is set
C30_Witness ==
  /\ Len(httpGets) = MaxGets
  /\ \A k \in DOMAIN httpGets : httpGets[k].state = "next"
  /\ httpGets[1].returned # httpGets[Len(httpGets)].returned
  /\ todoList.todoOwner = <<"i">>
  /\ todoList.filteredTodos \in ReturnedTodos

-----------------------------------------------------------------------------
(* Properties of the AddTodoComponent. *)

\* C23: submitForm calls addTodo once, with the value the form has; when the
\* call succeeds with an identifier the router goes to /todos/ with this
\* identifier, and when it fails the router stays where it is.
C23_SubmitCallsAddTodoOnce ==
  [][ /\ httpPosts' # httpPosts /\ Len(httpPosts') > Len(httpPosts)
        => /\ httpPosts' = Append(httpPosts, httpPosts'[Len(httpPosts')])
           /\ httpPosts'[Len(httpPosts')].url = "todoUrl"
           /\ httpPosts'[Len(httpPosts')].body = addTodoForm
           /\ location' = location
      /\ \A k \in DOMAIN httpPosts :
           /\ (httpPosts[k].state = "outstanding" /\ httpPosts'[k].state = "next")
                => location' = <<"/todos/", httpPosts'[k].id>>
           /\ (httpPosts[k].state = "outstanding" /\ httpPosts'[k].state = "error")
                => location' = location ]_vars

\* the form was submitted twice: the first call failed and left the router at
\* the form, the second succeeded and took it to the new todo
C23_Witness ==
  /\ Len(httpPosts) = MaxPosts
  /\ httpPosts[1].state = "error"
  /\ httpPosts[Len(httpPosts)].state = "next"
  /\ httpPosts[Len(httpPosts)].body.owner = Fry
  /\ location = <<"/todos/", httpPosts[Len(httpPosts)].id>>

=============================================================================
